---- MODULE Spec2Model ----
(***************************************************************************)
(* Model of the CircularImage node renderer                                *)
(* (src/src/symbols/nodes/CircularImage.tsx): the image reference prop,    *)
(* the load state kept with useState, the texture requests handed to the   *)
(* TextureLoader with their completion callbacks, and the uniforms of the  *)
(* shader material derived from them.                                      *)
(***************************************************************************)
EXTENDS Integers, Sequences, FiniteSets, TLC

VARIABLES image, loadState, requests, imageTexture,   \* the image pipeline of one instance
          props,                                       \* the other props of that instance
          themeCall,                                   \* the latest theme resolver call
          instances,                                   \* the instances of one process and their GPU objects
          frag,                                        \* the latest fragment the shader has run for
          label                                        \* one Label: its textRef, textSize and frame counts

loaderVars == <<image, loadState, requests, imageTexture>>

vars == <<image, loadState, requests, imageTexture, props, themeCall, instances, frag, label>>

(* ---------------- bounds of the model ---------------- *)

\* largest number of TextureLoader.load calls of one instance
MaxRequests == 3

\* largest natural width / height the dimension probe reports
MaxDim == 2

(* ---------------- values ---------------- *)

\* the falsy image prop (undefined or '') of `if (!image)`
NoImage == ""

\* the non-empty image references the owning view supplies
Refs == {"A", "B"}

\* the texture built by the placeholderTexture memo; request i builds texture i
placeholderTexture == 0

\* the sides the dimension probe can report: the smallest and the largest
Dims == {1, MaxDim}

RECURSIVE GCD(_, _)
GCD(a, b) == IF b = 0 THEN a ELSE GCD(b, a % b)

\* img.naturalWidth / img.naturalHeight, kept exact as a reduced fraction <<n, d>>
Ratio(w, h) == <<w \div GCD(w, h), h \div GCD(w, h)>>

\* the literal 1.0
One == <<1, 1>>

\* useState initial value
InitialLoadState ==
    [isLoading |-> TRUE, hasLoaded |-> FALSE, hasError |-> FALSE, aspectRatio |-> One]

\* ResetLoadState as it would be if the reset forgot to clear hasError
ResetLoadState_KeepsError(prev) ==
    [prev EXCEPT !.isLoading = TRUE, !.hasLoaded = FALSE]

\* the updater passed to setLoadState when a non-empty reference is (re)assigned
ResetLoadState(prev) ==
    [prev EXCEPT !.isLoading = TRUE, !.hasLoaded = FALSE, !.hasError = FALSE]

\* LoadedState as it would be with the quotient taken the wrong way round
LoadedState_Inverted(w, h) ==
    [isLoading |-> FALSE, hasLoaded |-> TRUE, hasError |-> FALSE, aspectRatio |-> Ratio(h, w)]

\* the value img.onload passes to setLoadState
LoadedState(w, h) ==
    [isLoading |-> FALSE, hasLoaded |-> TRUE, hasError |-> FALSE, aspectRatio |-> Ratio(w, h)]

\* ErrorState as it would be if onError forgot to clear isLoading
ErrorState_KeepsLoading(prev) ==
    [prev EXCEPT !.hasError = TRUE]

\* the updater the onError callback passes to setLoadState
ErrorState(prev) ==
    [prev EXCEPT !.isLoading = FALSE, !.hasError = TRUE]

\* one TextureLoader.load call: the reference its callbacks closed over and how far it got
NewRequest(r) == [ref |-> r, stage |-> "decoding", ratio |-> One]

(* ---------------- the other props ---------------- *)

\* numbers are kept in units of 0.00001, the smallest literal of the component
Unit == 100000

\* node.data.priority of the owning node
Priorities == {"high", "normal"}

Nodes == [priority : Priorities]

\* a "constant or function of the node" prop: typeof v === 'function' is v.isFunction
ConstantValue(c) == [isFunction |-> FALSE, val |-> c, fn |-> [n \in Nodes |-> c]]

FunctionValue(f) == [isFunction |-> TRUE, val |-> f[CHOOSE n \in Nodes : TRUE], fn |-> f]

\* the defaults of the destructured props; size, selected, animated and node come from the owning view
DefaultProps ==
    [ size                    |-> 1 * Unit,
      selected                |-> FALSE,
      opacity                 |-> 1 * Unit,
      animated                |-> FALSE,
      selectionBorderOpacity  |-> (8 * Unit) \div 10,
      selectionPulseAnimation |-> TRUE,
      borderEnabled           |-> ConstantValue(FALSE),
      borderColor             |-> ConstantValue("#000000"),
      borderThickness         |-> ConstantValue(2 * Unit),
      borderOpacity           |-> ConstantValue(1 * Unit),
      borderInnerRadius       |-> ConstantValue((8 * Unit) \div 10),
      node                    |-> [priority |-> "normal"] ]

\* no theme resolver has been called, no instance mounted, no fragment shaded
NoCall == [entry |-> "none"]

NoInstances == <<>>

NoFragment == [built |-> FALSE, shaded |-> FALSE]

\* a Label at its first render: textRef.current is null,
\* textSize is new Vector3(0, 0, 0), no frame has been drawn
InitialLabel ==
    [ attached |-> FALSE,
      textSize |-> [x |-> 0, y |-> 0, z |-> 0],
      measured |-> <<>>,
      updates  |-> 0,
      frames   |-> 0 ]

(* ---------------- rendered output ---------------- *)

currentTexture == IF loadState.hasLoaded THEN imageTexture ELSE placeholderTexture

\* currentAspectRatio as it would be without the hasLoaded guard
currentAspectRatio_Unguarded == loadState.aspectRatio

currentAspectRatio == IF loadState.hasLoaded THEN loadState.aspectRatio ELSE One

isPlaceholder == IF ~loadState.hasLoaded THEN 1 ELSE 0

shaderMaterial ==
    [map |-> currentTexture, aspectRatio |-> currentAspectRatio, isPlaceholder |-> isPlaceholder]

\* {loadState.isLoading && <a.mesh ...>}
loadingIndicator == loadState.isLoading

(* ---------------- border ring ---------------- *)

\* resolvedBorderEnabled as it would be if the prop were tested without being called
resolvedBorderEnabled_Uncalled ==
    props.borderEnabled.isFunction \/ props.borderEnabled.val

resolvedBorderEnabled ==
    IF props.borderEnabled.isFunction
      THEN props.borderEnabled.fn[props.node]
      ELSE props.borderEnabled.val

\* {resolvedBorderEnabled && <Ring ... />}
borderRing == resolvedBorderEnabled

resolvedBorderColor ==
    IF props.borderColor.isFunction
      THEN props.borderColor.fn[props.node]
      ELSE props.borderColor.val

resolvedBorderThickness ==
    IF props.borderThickness.isFunction
      THEN props.borderThickness.fn[props.node]
      ELSE props.borderThickness.val

resolvedBorderOpacity ==
    IF props.borderOpacity.isFunction
      THEN props.borderOpacity.fn[props.node]
      ELSE props.borderOpacity.val

resolvedBorderInnerRadius ==
    IF props.borderInnerRadius.isFunction
      THEN props.borderInnerRadius.fn[props.node]
      ELSE props.borderInnerRadius.val

\* Math.max
Max(a, b) == IF a >= b THEN a ELSE b

\* the border ring as it would be without the Math.max(0.1, ...) floor
borderRingProps_NoFloor ==
    [ innerRadius |-> resolvedBorderInnerRadius,
      size        |-> (props.size * 18) \div 10,
      color       |-> resolvedBorderColor,
      opacity     |-> resolvedBorderOpacity,
      strokeWidth |-> resolvedBorderThickness,
      segments    |-> 64 ]

\* the props of the border <Ring>
borderRingProps ==
    [ innerRadius |-> Max(Unit \div 10, resolvedBorderInnerRadius),
      size        |-> (props.size * 18) \div 10,
      color       |-> resolvedBorderColor,
      opacity     |-> resolvedBorderOpacity,
      strokeWidth |-> resolvedBorderThickness,
      segments    |-> 64 ]

(* ---------------- springs ---------------- *)

\* the near-zero scale 0.00001
Epsilon == 1

NearZero == <<Epsilon, Epsilon, Epsilon>>

\* config.duration: <<>> is undefined (the spring's own timing), <<d>> is d milliseconds
NoDuration == <<>>

Duration(ms) == <<ms>>

PulseDuration == 1000

\* nodeSpring as it would be with the animated test the wrong way round
nodeSpring_InvertedAnimated ==
    [ from   |-> [ scale |-> NearZero, nodeOpacity |-> 0,
                   ringScale |-> NearZero, ringOpacity |-> 0 ],
      to     |-> [ scale       |-> <<props.size, props.size, props.size>>,
                   nodeOpacity |-> props.opacity,
                   ringScale   |-> IF props.selected
                                     THEN <<props.size \div 2, props.size \div 2, 1 * Unit>>
                                     ELSE NearZero,
                   ringOpacity |-> IF props.selected THEN props.selectionBorderOpacity ELSE 0 ],
      config |-> [ duration |-> IF props.animated THEN Duration(0) ELSE NoDuration ] ]

\* nodeSpring as it would be if the springs started and collapsed at an exact zero scale
nodeSpring_ZeroScale ==
    [ from   |-> [ scale |-> <<0, 0, 0>>, nodeOpacity |-> 0,
                   ringScale |-> <<0, 0, 0>>, ringOpacity |-> 0 ],
      to     |-> [ scale       |-> <<props.size, props.size, props.size>>,
                   nodeOpacity |-> props.opacity,
                   ringScale   |-> IF props.selected
                                     THEN <<props.size \div 2, props.size \div 2, 1 * Unit>>
                                     ELSE <<0, 0, 0>>,
                   ringOpacity |-> IF props.selected THEN props.selectionBorderOpacity ELSE 0 ],
      config |-> [ duration |-> IF props.animated THEN NoDuration ELSE Duration(0) ] ]

\* the useSpring call for scale, nodeOpacity, ringScale and ringOpacity
nodeSpring ==
    [ from   |-> [ scale |-> NearZero, nodeOpacity |-> 0,
                   ringScale |-> NearZero, ringOpacity |-> 0 ],
      to     |-> [ scale       |-> <<props.size, props.size, props.size>>,
                   nodeOpacity |-> props.opacity,
                   ringScale   |-> IF props.selected
                                     THEN <<props.size \div 2, props.size \div 2, 1 * Unit>>
                                     ELSE NearZero,
                   ringOpacity |-> IF props.selected THEN props.selectionBorderOpacity ELSE 0 ],
      config |-> [ duration |-> IF props.animated THEN NoDuration ELSE Duration(0) ] ]

\* pulseSpring as it would be if the pulse followed selectionPulseAnimation alone
pulseSpring_IgnoresSelected ==
    [ from   |-> [ pulseScale |-> <<1 * Unit, 1 * Unit, 1 * Unit>> ],
      to     |-> [ pulseScale |-> IF props.selectionPulseAnimation
                                    THEN <<(11 * Unit) \div 10, (11 * Unit) \div 10, (11 * Unit) \div 10>>
                                    ELSE <<1 * Unit, 1 * Unit, 1 * Unit>> ],
      config |-> [ duration |-> IF props.selectionPulseAnimation
                                  THEN Duration(PulseDuration) ELSE Duration(0) ],
      loop   |-> [ enabled |-> props.selectionPulseAnimation,
                   reverse |-> props.selectionPulseAnimation ] ]

\* the useSpring call for pulseScale; loop: false is [enabled |-> FALSE, ...]
pulseSpring ==
    [ from   |-> [ pulseScale |-> <<1 * Unit, 1 * Unit, 1 * Unit>> ],
      to     |-> [ pulseScale |-> IF props.selected /\ props.selectionPulseAnimation
                                    THEN <<(11 * Unit) \div 10, (11 * Unit) \div 10, (11 * Unit) \div 10>>
                                    ELSE <<1 * Unit, 1 * Unit, 1 * Unit>> ],
      config |-> [ duration |-> IF props.selected /\ props.selectionPulseAnimation
                                  THEN Duration(PulseDuration) ELSE Duration(0) ],
      loop   |-> [ enabled |-> props.selected /\ props.selectionPulseAnimation,
                   reverse |-> props.selected /\ props.selectionPulseAnimation ] ]

(* ---------------- state machine ---------------- *)

\* first render: useState, then the imageTexture memo for the initial prop
Init ==
    /\ image \in Refs \cup {NoImage}
    /\ IF image = NoImage
         THEN /\ loadState = InitialLoadState
              /\ requests = <<>>
              /\ imageTexture = placeholderTexture
         ELSE /\ loadState = ResetLoadState(InitialLoadState)
              /\ requests = <<NewRequest(image)>>
              /\ imageTexture = 1
    /\ props = DefaultProps
    /\ themeCall = NoCall
    /\ instances = NoInstances
    /\ frag = NoFragment
    /\ label = InitialLabel

\* the owning view passes another image prop: the imageTexture memo re-runs
SetImage(r) ==
    /\ r # image
    /\ image' = r
    /\ IF r = NoImage
         THEN /\ imageTexture' = placeholderTexture
              /\ UNCHANGED <<loadState, requests>>
         ELSE /\ Len(requests) < MaxRequests
              /\ loadState' = ResetLoadState(loadState)
              /\ requests' = Append(requests, NewRequest(r))
              /\ imageTexture' = Len(requests) + 1

\* onLoad of request i: starts the out-of-band probe (new Image(); img.src = image)
TextureLoaded(i) ==
    /\ requests[i].stage = "decoding"
    /\ requests' = [requests EXCEPT ![i].stage = "probing"]
    /\ UNCHANGED <<image, loadState, imageTexture>>

\* onError of request i
TextureError(i) ==
    /\ requests[i].stage = "decoding"
    /\ requests' = [requests EXCEPT ![i].stage = "failed"]
    /\ loadState' = ErrorState(loadState)
    /\ UNCHANGED <<image, imageTexture>>

\* img.onload of the probe of request i, reporting naturalWidth w and naturalHeight h
ProbeLoaded(i, w, h) ==
    /\ requests[i].stage = "probing"
    /\ requests' = [requests EXCEPT ![i].stage = "loaded", ![i].ratio = Ratio(w, h)]
    /\ loadState' = LoadedState(w, h)
    /\ UNCHANGED <<image, imageTexture>>

\* the probe of request i fails: img has no onerror handler, nothing is published
ProbeError(i) ==
    /\ requests[i].stage = "probing"
    /\ requests' = [requests EXCEPT ![i].stage = "probeFailed"]
    /\ UNCHANGED <<image, loadState, imageTexture>>

\* what a step of the image pipeline leaves alone
otherVars == <<props, themeCall, instances, frag, label>>

Next ==
    \/ \E r \in Refs \cup {NoImage} : SetImage(r) /\ UNCHANGED otherVars
    \/ \E i \in 1..Len(requests) : TextureLoaded(i) /\ UNCHANGED otherVars
    \/ \E i \in 1..Len(requests) : TextureError(i) /\ UNCHANGED otherVars
    \/ \E i \in 1..Len(requests), w \in Dims, h \in Dims :
          ProbeLoaded(i, w, h) /\ UNCHANGED otherVars
    \/ \E i \in 1..Len(requests) : ProbeError(i) /\ UNCHANGED otherVars

Spec == Init /\ [][Next]_vars

(* ---------------- re-renders with other props ---------------- *)

\* the props the owning view varies here: selected, borderEnabled and the node
RenderProps ==
    { [DefaultProps EXCEPT !.selected = s, !.borderEnabled = b, !.node = n] :
        s \in BOOLEAN,
        b \in {ConstantValue(c) : c \in BOOLEAN} \cup {FunctionValue(f) : f \in [Nodes -> BOOLEAN]},
        n \in Nodes }

\* Rerender as it would be if the imageTexture memo also depended on the other props
Rerender_Reloads(p) ==
    /\ p # props
    /\ props' = p
    /\ IF image = NoImage \/ Len(requests) >= MaxRequests - 1
         THEN UNCHANGED loaderVars
         ELSE /\ loadState' = ResetLoadState(loadState)
              /\ requests' = Append(requests, NewRequest(image))
              /\ imageTexture' = Len(requests) + 1
              /\ UNCHANGED image
    /\ UNCHANGED <<themeCall, instances, frag, label>>

\* the owning view re-renders the instance with the same image and other props:
\* the deps [image, placeholderTexture] of the imageTexture memo are unchanged
Rerender(p) ==
    /\ p # props
    /\ props' = p
    /\ UNCHANGED loaderVars
    /\ UNCHANGED <<themeCall, instances, frag, label>>

NextRender ==
    \/ \E r \in Refs \cup {NoImage} :
          SetImage(r) /\ Len(requests') < MaxRequests /\ UNCHANGED otherVars
    \/ \E i \in 1..Len(requests) : TextureLoaded(i) /\ UNCHANGED otherVars
    \/ \E i \in 1..Len(requests) : TextureError(i) /\ UNCHANGED otherVars
    \/ \E i \in 1..Len(requests), w \in Dims, h \in Dims :
          ProbeLoaded(i, w, h) /\ UNCHANGED otherVars
    \/ \E i \in 1..Len(requests) : ProbeError(i) /\ UNCHANGED otherVars
    \/ \E p \in RenderProps : Rerender(p)

SpecRender == Init /\ [][NextRender]_vars

(* ---------------- re-renders that drive the springs ---------------- *)

\* largest size (in whole units) the owning view gives a node
MaxSize == 2

\* the props the owning view varies here
SpringProps ==
    { [DefaultProps EXCEPT !.size = z * Unit, !.selected = s, !.selectionPulseAnimation = a,
                           !.animated = m, !.opacity = o, !.selectionBorderOpacity = b] :
        z \in 1..MaxSize, s \in BOOLEAN, a \in BOOLEAN, m \in BOOLEAN,
        o \in {0, Unit \div 2, Unit}, b \in {Unit \div 2, (8 * Unit) \div 10, Unit} }

InitSpring ==
    /\ Init
    /\ image = NoImage

NextSpring ==
    \/ \E p \in SpringProps : Rerender(p)

SpecSpring == InitSpring /\ [][NextSpring]_vars

(* ---------------- re-renders that restyle the border ---------------- *)

\* a per-node style: one value for priority 'high', another for every other node
ByPriority(high, other) == [n \in Nodes |-> IF n.priority = "high" THEN high ELSE other]

\* the props the owning view varies here: each border field is left at its
\* default, set to a constant, or set to a function of the node
BorderProps ==
    { [DefaultProps EXCEPT !.size = z * Unit, !.node = n, !.borderEnabled = e,
                           !.borderColor = c, !.borderThickness = t,
                           !.borderOpacity = o, !.borderInnerRadius = i] :
        z \in 1..MaxSize, n \in Nodes,
        e \in {ConstantValue(FALSE), ConstantValue(TRUE)},
        c \in {DefaultProps.borderColor, ConstantValue("#00008B"),
               FunctionValue(ByPriority("#FF8800", "#4A90E2"))},
        t \in {DefaultProps.borderThickness, ConstantValue(3 * Unit),
               FunctionValue(ByPriority(10 * Unit, 8 * Unit))},
        o \in {DefaultProps.borderOpacity, ConstantValue((9 * Unit) \div 10),
               FunctionValue(ByPriority(1 * Unit, Unit \div 2))},
        i \in {DefaultProps.borderInnerRadius, ConstantValue((5 * Unit) \div 100),
               FunctionValue(ByPriority((9 * Unit) \div 10, (5 * Unit) \div 100))} }

InitBorder ==
    /\ Init
    /\ image = NoImage

NextBorder ==
    \/ \E p \in BorderProps : Rerender(p)

SpecBorder == InitBorder /\ [][NextBorder]_vars

(* ---------------- fragment shader: sampling coordinates ---------------- *)

\* texture coordinates are the points k / MaxGrid of the unit square
MaxGrid == 4

\* shader floats are kept exact, as reduced fractions <<n, d>> with d > 0
Abs(x) == IF x < 0 THEN -x ELSE x

Q(n, d) == IF n = 0 THEN <<0, 1>> ELSE <<n \div GCD(Abs(n), d), d \div GCD(Abs(n), d)>>

QAdd(a, b) == Q(a[1] * b[2] + b[1] * a[2], a[2] * b[2])

QSub(a, b) == Q(a[1] * b[2] - b[1] * a[2], a[2] * b[2])

QMul(a, b) == Q(a[1] * b[1], a[2] * b[2])

\* a / b for b > 0
QDiv(a, b) == Q(a[1] * b[2], a[2] * b[1])

QLess(a, b) == a[1] * b[2] < b[1] * a[2]

\* clamp(x, 0.0, 1.0)
Clamp01(a) == IF a[1] < 0 THEN <<0, 1>> ELSE IF a[1] > a[2] THEN <<1, 1>> ELSE a

Half == <<1, 2>>

\* uv *= 0.6 and uv *= 0.95
PlaceholderScale == <<3, 5>>

FillScale == <<19, 20>>

\* sampleUv as it would be if a wide image were stretched instead of compressed
sampleUv_Stretches(vUv, aspectRatio, placeholder) ==
    LET cx == QSub(vUv[1], Half)
        cy == QSub(vUv[2], Half)
        ax == IF QLess(One, aspectRatio) THEN QMul(cx, aspectRatio) ELSE cx
        ay == IF ~QLess(One, aspectRatio) /\ QLess(aspectRatio, One)
                THEN QMul(cy, aspectRatio) ELSE cy
        sx == IF 2 * placeholder > 1 THEN QMul(cx, PlaceholderScale) ELSE QMul(ax, FillScale)
        sy == IF 2 * placeholder > 1 THEN QMul(cy, PlaceholderScale) ELSE QMul(ay, FillScale)
    IN  <<Clamp01(QAdd(sx, Half)), Clamp01(QAdd(sy, Half))>>

\* the coordinate handed to texture2D(map, uv) for the varying vUv
sampleUv(vUv, aspectRatio, placeholder) ==
    LET cx == QSub(vUv[1], Half)
        cy == QSub(vUv[2], Half)
        ax == IF QLess(One, aspectRatio) THEN QDiv(cx, aspectRatio) ELSE cx
        ay == IF ~QLess(One, aspectRatio) /\ QLess(aspectRatio, One)
                THEN QMul(cy, aspectRatio) ELSE cy
        sx == IF 2 * placeholder > 1 THEN QMul(cx, PlaceholderScale) ELSE QMul(ax, FillScale)
        sy == IF 2 * placeholder > 1 THEN QMul(cy, PlaceholderScale) ELSE QMul(ay, FillScale)
    IN  <<Clamp01(QAdd(sx, Half)), Clamp01(QAdd(sy, Half))>>

\* the values the aspectRatio uniform can take
AspectRatios == {Ratio(w, h) : w \in 1..MaxDim, h \in 1..MaxDim}

\* the aspectRatio and isPlaceholder uniforms the material is built with: the
\* placeholder with ratio 1.0 until hasLoaded, then the image with its ratio
Uniforms ==
    {[aspectRatio |-> One, isPlaceholder |-> 1]}
        \cup {[aspectRatio |-> r, isPlaceholder |-> 0] : r \in AspectRatios}

\* the values the opacity uniform takes here
Opacities == {Half, One}

QLeq(a, b) == ~QLess(b, a)

\* r + b when that is still at most the square root of n, else r
SqrtBit(r, b, n) == IF (r + b) * (r + b) <= n THEN r + b ELSE r

\* sqrt rounded down to an integer, for 0 <= n < 2^30, one bit at a time
sqrt(n) ==
    LET r14 == SqrtBit(0, 16384, n)
        r13 == SqrtBit(r14, 8192, n)
        r12 == SqrtBit(r13, 4096, n)
        r11 == SqrtBit(r12, 2048, n)
        r10 == SqrtBit(r11, 1024, n)
        r9  == SqrtBit(r10, 512, n)
        r8  == SqrtBit(r9, 256, n)
        r7  == SqrtBit(r8, 128, n)
        r6  == SqrtBit(r7, 64, n)
        r5  == SqrtBit(r6, 32, n)
        r4  == SqrtBit(r5, 16, n)
        r3  == SqrtBit(r4, 8, n)
        r2  == SqrtBit(r3, 4, n)
        r1  == SqrtBit(r2, 2, n)
    IN  SqrtBit(r1, 1, n)

\* a float keeps about four decimals of a square root here
Precision == 10000

\* distance(vUv, center): exact when the distance is a multiple of 1 / (L * S),
\* else rounded down to it (L the common denominator of the two offsets,
\* S the scale that brings 1 / (L * S) below 1 / Precision)
distance(vUv, center) ==
    LET cx == QSub(vUv[1], center[1])
        cy == QSub(vUv[2], center[2])
        L  == (cx[2] * cy[2]) \div GCD(cx[2], cy[2])
        nx == cx[1] * (L \div cx[2])
        ny == cy[1] * (L \div cy[2])
        S  == (Precision + L - 1) \div L
        n  == (nx * nx + ny * ny) * S * S
    IN  Q(sqrt(n), L * S)

\* GLSL smoothstep: t = clamp((x - edge0) / (edge1 - edge0), 0, 1); t * t * (3 - 2 t)
smoothstep(edge0, edge1, x) ==
    LET t == Clamp01(QDiv(QSub(x, edge0), QSub(edge1, edge0)))
    IN  QMul(QMul(t, t), QSub(<<3, 1>>, QMul(<<2, 1>>, t)))

\* smoothstep(0.48, 0.5, dist)
MaskInner == <<12, 25>>

\* the mask as it would be with a hard edge at the radius
circularMask_HardEdge(dist) == IF QLess(dist, Half) THEN One ELSE <<0, 1>>

\* float mask = 1.0 - smoothstep(0.48, 0.5, dist)
circularMask(dist) == QSub(One, smoothstep(MaskInner, Half, dist))

\* fragments near the rim of the circle, whose distance from the centre is
\* 0.48, 0.485, 0.49, 0.495 or 0.5
RimFragments ==
    { <<Q(98, 100), Half>>, <<Q(197, 200), Half>>, <<Q(99, 100), Half>>,
      <<Half, Q(99, 100)>>, <<Q(1, 100), Half>>, <<Half, Q(1, 200)>>,
      <<Q(794, 1000), Q(892, 1000)>>, <<Q(788, 1000), Q(884, 1000)>>,
      <<Q(4, 5), Q(9, 10)>> }

\* the fragments the shader runs for: the points (i, j) / MaxGrid and the rim
Fragments ==
    {<<Q(i, MaxGrid), Q(j, MaxGrid)>> : i \in 0..MaxGrid, j \in 0..MaxGrid} \cup RimFragments

InitShader ==
    /\ Init
    /\ image = NoImage

\* new ShaderMaterial({uniforms: ...}): the uniforms every fragment of the
\* following draws is shaded with
SetUniforms(u, opacity) ==
    /\ frag' = [ built         |-> TRUE,
                 shaded        |-> FALSE,
                 aspectRatio   |-> u.aspectRatio,
                 isPlaceholder |-> u.isPlaceholder,
                 opacity       |-> opacity ]
    /\ UNCHANGED <<loaderVars, props, themeCall, instances, label>>

\* void main() of the fragment shader, for the fragment whose varying is vUv
ShadeFragment(vUv) ==
    /\ frag.built
    /\ LET dist == distance(vUv, <<Half, Half>>)
           mask == circularMask(dist)
       IN  frag' = [ built         |-> TRUE,
                     shaded        |-> TRUE,
                     vUv           |-> vUv,
                     aspectRatio   |-> frag.aspectRatio,
                     isPlaceholder |-> frag.isPlaceholder,
                     opacity       |-> frag.opacity,
                     dist          |-> dist,
                     mask          |-> mask,
                     uv            |-> sampleUv(vUv, frag.aspectRatio, frag.isPlaceholder),
                     alpha         |-> QMul(mask, frag.opacity) ]
    /\ UNCHANGED <<loaderVars, props, themeCall, instances, label>>

NextShader ==
    \/ \E u \in Uniforms, opacity \in Opacities : SetUniforms(u, opacity)
    \/ \E vUv \in Fragments : ShadeFragment(vUv)

SpecShader == InitShader /\ [][NextShader]_vars

(* ---------------- theme resolvers (src/themes/theme.ts) ---------------- *)

\* largest element (edge or node) id and largest resolved value
MaxElements == 2

MaxResult == 2

\* the JavaScript undefined: an absent element, an absent value, an undefined result
Undefined == 0

\* the element argument: an edge or node, or absent
Elements == 1..MaxElements \cup {Undefined}

\* what a callback returns and what a constant can be
Results == 1..MaxResult \cup {Undefined}

\* a theme field: a constant (typeof v !== 'function') or a callback of the element
ThemeConstant(c) == [isFunction |-> FALSE, val |-> c, fn |-> [e \in Elements |-> c]]

ThemeCallback(f) == [isFunction |-> TRUE, val |-> Undefined, fn |-> f]

StyleValues ==
    {ThemeConstant(c) : c \in Results} \cup {ThemeCallback(f) : f \in [Elements -> Results]}

\* each resolver yields its return value and the argument lists of the calls it made
getEdgeThemeColor(colorValue, edge) ==
    IF colorValue.isFunction
      THEN [result |-> colorValue.fn[edge], calls |-> << <<edge>> >>]
      ELSE [result |-> colorValue.val, calls |-> <<>>]

getEdgeThemeNumber(value, edge) ==
    IF value.isFunction
      THEN [result |-> value.fn[edge], calls |-> << <<edge>> >>]
      ELSE [result |-> value.val, calls |-> <<>>]

\* getNodeThemeNumber as it would be if the callback were called without the node
getNodeThemeNumber_DropsNode(value, node) ==
    IF value.isFunction
      THEN [result |-> value.fn[Undefined], calls |-> << <<>> >>]
      ELSE [result |-> value.val, calls |-> <<>>]

getNodeThemeNumber(value, node) ==
    IF value.isFunction
      THEN [result |-> value.fn[node], calls |-> << <<node>> >>]
      ELSE [result |-> value.val, calls |-> <<>>]

InitTheme ==
    /\ Init
    /\ image = NoImage

\* a call site resolves a theme field against an element
CallGetEdgeThemeColor(v, e) ==
    /\ themeCall' = [entry |-> "getEdgeThemeColor", value |-> v, element |-> e,
                     out |-> getEdgeThemeColor(v, e)]
    /\ UNCHANGED <<loaderVars, props, instances, frag, label>>

CallGetEdgeThemeNumber(v, e) ==
    /\ themeCall' = [entry |-> "getEdgeThemeNumber", value |-> v, element |-> e,
                     out |-> getEdgeThemeNumber(v, e)]
    /\ UNCHANGED <<loaderVars, props, instances, frag, label>>

CallGetNodeThemeNumber(v, e) ==
    /\ themeCall' = [entry |-> "getNodeThemeNumber", value |-> v, element |-> e,
                     out |-> getNodeThemeNumber(v, e)]
    /\ UNCHANGED <<loaderVars, props, instances, frag, label>>

NextTheme ==
    \/ \E v \in StyleValues, e \in Elements : CallGetEdgeThemeColor(v, e)
    \/ \E v \in StyleValues, e \in Elements : CallGetEdgeThemeNumber(v, e)
    \/ \E v \in StyleValues, e \in Elements : CallGetNodeThemeNumber(v, e)

SpecTheme == InitTheme /\ [][NextTheme]_vars

(* ---------------- several instances in one process ---------------- *)

\* largest number of CircularImage instances mounted in one process
MaxInstances == 2

\* largest number of image textures, and of shader materials, one instance creates
MaxObjects == 2

\* instance k after its first render: the placeholderTexture memo (deps []) has
\* built a texture of its own, identified by k; the imageTexture memo has called
\* loader.load when an image was given; the shaderMaterial memo has built one material
MountedInstance(k, hasImage) ==
    [ mounted     |-> TRUE,
      placeholder |-> k,
      textures    |-> IF hasImage THEN 1 ELSE 0,
      materials   |-> 1 ]

InitInstances ==
    /\ Init
    /\ image = NoImage

\* React mounts one more instance
Mount(hasImage) ==
    /\ Len(instances) < MaxInstances
    /\ instances' = Append(instances, MountedInstance(Len(instances) + 1, hasImage))
    /\ UNCHANGED <<loaderVars, props, themeCall, frag, label>>

\* instance k gets another non-empty image: loader.load builds another texture,
\* the previous one is not disposed
LoadTexture(k) ==
    /\ instances[k].mounted
    /\ instances[k].textures < MaxObjects
    /\ instances' = [instances EXCEPT ![k].textures = @ + 1]
    /\ UNCHANGED <<loaderVars, props, themeCall, frag, label>>

\* a dep of the shaderMaterial memo of instance k changes: new ShaderMaterial,
\* the previous one is not disposed
BuildMaterial(k) ==
    /\ instances[k].mounted
    /\ instances[k].materials < MaxObjects
    /\ instances' = [instances EXCEPT ![k].materials = @ + 1]
    /\ UNCHANGED <<loaderVars, props, themeCall, frag, label>>

\* React tears instance k down: the component registers no cleanup and calls no
\* dispose(); objects attached with <primitive> are not disposed by the reconciler
Unmount(k) ==
    /\ instances[k].mounted
    /\ instances' = [instances EXCEPT ![k].mounted = FALSE]
    /\ UNCHANGED <<loaderVars, props, themeCall, frag, label>>

NextInstances ==
    \/ \E hasImage \in BOOLEAN : Mount(hasImage)
    \/ \E k \in 1..Len(instances) : LoadTexture(k)
    \/ \E k \in 1..Len(instances) : BuildMaterial(k)
    \/ \E k \in 1..Len(instances) : Unmount(k)

SpecInstances == InitInstances /\ [][NextInstances]_vars

(* ---------------- Label: polling the text extents (src/symbols/Label.tsx) ---------------- *)

\* largest number of frames drawn for one Label
MaxFrames == 3

\* 1e-4, the step roundToSixDecimals rounds to
RoundingStep == Unit \div 10000

\* Math.round(value * 1e4) / 1e4; Math.round rounds a half upwards
roundToSixDecimals(value) == ((2 * value + RoundingStep) \div (2 * RoundingStep)) * RoundingStep

\* the comparison as it would be without rounding
compareRoundedNumbers_Unrounded(num1, num2) == num1 = num2

compareRoundedNumbers(num1, num2) == roundToSixDecimals(num1) = roundToSixDecimals(num2)

\* the sizes box.getSize reports here: x is 1.0, 1.00004 or 1.00005,
\* y is 0.5 or 0.50006, z is 0 or 0.0001
Extents ==
    { [x |-> x, y |-> y, z |-> z] :
        x \in {100000, 100004, 100005}, y \in {50000, 50006}, z \in {0, 10} }

InitLabel ==
    /\ Init
    /\ image = NoImage

\* the <Text ref={textRef}> is committed: textRef.current is set
AttachText ==
    /\ ~label.attached
    /\ label' = [label EXCEPT !.attached = TRUE]
    /\ UNCHANGED <<loaderVars, props, themeCall, instances, frag>>

\* the useFrame callback of one drawn frame, size being what the box measures;
\* setTextSize(size) re-renders the Label before the next frame
Frame(size) ==
    /\ label.frames < MaxFrames
    /\ IF label.attached
         THEN IF \/ ~compareRoundedNumbers(size.x, label.textSize.x)
                 \/ ~compareRoundedNumbers(size.y, label.textSize.y)
                THEN label' = [label EXCEPT !.textSize = size,
                                            !.updates = @ + 1,
                                            !.measured = <<size>>,
                                            !.frames = @ + 1]
                ELSE label' = [label EXCEPT !.measured = <<size>>,
                                            !.frames = @ + 1]
         ELSE label' = [label EXCEPT !.frames = @ + 1]
    /\ UNCHANGED <<loaderVars, props, themeCall, instances, frag>>

NextLabel ==
    \/ AttachText
    \/ \E size \in Extents : Frame(size)

SpecLabel == InitLabel /\ [][NextLabel]_vars

(* ---------------- vocabulary of the claims ---------------- *)

\* request i is the one the current imageTexture memo value came from
IsCurrent(i) == i \in 1..Len(requests) /\ imageTexture = i /\ image = requests[i].ref

\* the texture or probe callback of request i has published its result
Settled(i) == requests[i].stage \in {"loaded", "failed"}

\* the load state shows the outcome of request i and nothing else
ReflectsOutcome(i) ==
    IF requests[i].stage = "loaded"
      THEN /\ loadState.hasLoaded /\ ~loadState.hasError
           /\ loadState.aspectRatio = requests[i].ratio
      ELSE loadState.hasError /\ ~loadState.hasLoaded

Flags(l) == <<l.isLoading, l.hasLoaded, l.hasError>>

\* the image prop changes to the non-empty reference r in this step
AssignsRef(r) == r \in Refs /\ image # r /\ image' = r

(* ---------------- claims ---------------- *)

\* C1: after the assignments [A, B] (distinct, non-empty) and once both
\* completions have been delivered, the load state is B's outcome only.
C1_StaleCompletionDiscarded ==
    ( /\ Len(requests) = 2
      /\ requests[1].ref # requests[2].ref
      /\ IsCurrent(2)
      /\ Settled(1) /\ Settled(2) )
    => ReflectsOutcome(2)

\* C2: exactly one of isLoading, hasLoaded, hasError is true in every reachable state.
C2_ExactlyOneFlag ==
    Cardinality({k \in 1..3 : Flags(loadState)[k]}) = 1

\* C3: mounted without an image reference and none ever supplied: isLoading is
\* false and the loading indicator is not rendered.
C3_NoImageNeverLoading ==
    (image = NoImage /\ requests = <<>>) => (~loadState.isLoading /\ ~loadingIndicator)

\* C4: while the image reference is absent no acquisition belongs to it and the
\* material is in placeholder mode: map = placeholder texture, isPlaceholder = 1,
\* aspectRatio uniform = 1.0.
C4_AbsentRefPlaceholderMode ==
    image = NoImage =>
        /\ imageTexture = placeholderTexture
        /\ shaderMaterial.map = placeholderTexture
        /\ shaderMaterial.isPlaceholder = 1
        /\ shaderMaterial.aspectRatio = One

\* C5: when the probe of the current reference's request reports w x h, the load
\* state becomes exactly {isLoading:false, hasLoaded:true, hasError:false,
\* aspectRatio: w/h} (2/1 for a 2:1 image).
C5_LoadedPublishesRatio ==
    [][ \A i \in 1..Len(requests), w \in Dims, h \in Dims :
          (IsCurrent(i) /\ ProbeLoaded(i, w, h)) =>
              /\ Flags(loadState') = <<FALSE, TRUE, FALSE>>
              /\ loadState'.aspectRatio[1] * h = loadState'.aspectRatio[2] * w
              /\ GCD(loadState'.aspectRatio[1], loadState'.aspectRatio[2]) = 1
              /\ DOMAIN loadState' = {"isLoading", "hasLoaded", "hasError", "aspectRatio"} ]_vars

\* C5 witness: the current request has been measured as a 2:1 image and is shown.
C5_Witness ==
    \E i \in 1..Len(requests) :
        /\ IsCurrent(i) /\ requests[i].stage = "loaded" /\ requests[i].ratio = <<2, 1>>
        /\ loadState = [isLoading |-> FALSE, hasLoaded |-> TRUE, hasError |-> FALSE,
                        aspectRatio |-> <<2, 1>>]

\* C6: when the decode of the current reference's request fails, the load state
\* becomes {isLoading:false, hasLoaded:false, hasError:true} and the material
\* still uses the placeholder texture.
C6_ErrorPublishesErrored ==
    [][ \A i \in 1..Len(requests) :
          (IsCurrent(i) /\ TextureError(i)) =>
              /\ Flags(loadState') = <<FALSE, FALSE, TRUE>>
              /\ shaderMaterial'.map = placeholderTexture ]_vars

\* C7: every change of the image reference to a different non-empty value puts
\* the instance into Loading (true, false, false) and starts exactly one
\* acquisition, for the new reference.
C7_ChangeReentersLoading ==
    [][ \A r \in Refs :
          AssignsRef(r) =>
              /\ Flags(loadState') = <<TRUE, FALSE, FALSE>>
              /\ Len(requests') = Len(requests) + 1
              /\ SubSeq(requests', 1, Len(requests)) = requests
              /\ requests'[Len(requests')].ref = r
              /\ requests'[Len(requests')].stage = "decoding"
              /\ imageTexture' = Len(requests') ]_vars

\* C7 witness: a reference was assigned after an earlier one had Errored (or
\* Loaded) and the instance is Loading again for the new request.
C7_Witness ==
    /\ Len(requests) >= 2
    /\ requests[1].stage \in {"loaded", "failed"}
    /\ IsCurrent(Len(requests))
    /\ requests[Len(requests)].stage = "decoding"
    /\ \A j \in 1..Len(requests) - 1 : requests[j].stage \in {"loaded", "failed", "probeFailed"}
    /\ Flags(loadState) = <<TRUE, FALSE, FALSE>>

\* C8 as stated: every change of the image reference resets the load state to
\* the full initial state, aspectRatio = 1.0 included.
C8_ResetsAspectRatio ==
    [][ \A r \in Refs : AssignsRef(r) => loadState' = InitialLoadState ]_vars

\* C8 amended: a change to a non-empty reference resets the three flags and
\* leaves loadState.aspectRatio as it was; the aspectRatio uniform of the
\* material is 1.0 in every state where hasLoaded is false.
C8_ResetKeepsRatioUniformIsOne ==
    /\ [](~loadState.hasLoaded => shaderMaterial.aspectRatio = One)
    /\ [][ \A r \in Refs :
             AssignsRef(r) =>
                 /\ Flags(loadState') = <<TRUE, FALSE, FALSE>>
                 /\ loadState'.aspectRatio = loadState.aspectRatio ]_vars

\* C8 witness: a new reference is Loading while loadState still holds the
\* previous image's ratio, and the uniform is 1.0.
C8_Witness ==
    /\ \E i \in 1..Len(requests) : IsCurrent(i) /\ requests[i].stage = "decoding"
    /\ Flags(loadState) = <<TRUE, FALSE, FALSE>>
    /\ loadState.aspectRatio # One
    /\ shaderMaterial.aspectRatio = One

\* C9: Loaded and Errored are entered only from Loading, and no step goes
\* directly from Loaded to Errored or from Errored to Loaded.
C9_OrderedTransitions ==
    [][ /\ (~loadState.hasLoaded /\ loadState'.hasLoaded) => loadState.isLoading
        /\ (~loadState.hasError /\ loadState'.hasError) => loadState.isLoading
        /\ ~(loadState.hasLoaded /\ loadState'.hasError)
        /\ ~(loadState.hasError /\ loadState'.hasLoaded) ]_vars

\* C10: once the current reference's request has failed, the instance is
\* Errored (hasError, not hasLoaded, placeholder rendered) for as long as that
\* reference stays current.
C10_ErrorIsTerminal ==
    \A i \in 1..Len(requests) :
        (IsCurrent(i) /\ requests[i].stage = "failed") =>
            /\ loadState.hasError /\ ~loadState.hasLoaded
            /\ shaderMaterial.map = placeholderTexture
            /\ shaderMaterial.isPlaceholder = 1

\* C11: an acquisition is started only by a change of the image reference to a
\* non-empty value; a step that leaves the reference alone (a load-state update,
\* a decode failure, a re-render with other props) starts none.
C11_NoAutomaticRetry ==
    [][ /\ (image' = image) =>
              (Len(requests') = Len(requests) /\ imageTexture' = imageTexture)
        /\ (Len(requests') # Len(requests)) =>
              (image' \in Refs /\ image' # image /\ Len(requests') = Len(requests) + 1)
        /\ (props' # props) => (requests' = requests /\ loadState' = loadState) ]_vars

\* C11 witness: the only request has failed and the instance has been re-rendered
\* with other props since, and there is still that one request.
C11_Witness ==
    /\ Len(requests) = 1
    /\ requests[1].stage = "failed"
    /\ IsCurrent(1)
    /\ loadState.hasError
    /\ props # DefaultProps

\* C12: the material samples the image texture in image mode (isPlaceholder = 0,
\* aspectRatio uniform = measured ratio) exactly in the Loaded states; in the
\* Loading and Errored states it samples the placeholder texture with
\* isPlaceholder = 1 and aspectRatio uniform = 1.0.
C12_ImageModeIffLoaded ==
    /\ loadState.hasLoaded <=>
          /\ shaderMaterial.map = imageTexture
          /\ shaderMaterial.map # placeholderTexture
          /\ shaderMaterial.isPlaceholder = 0
          /\ shaderMaterial.aspectRatio = loadState.aspectRatio
    /\ (loadState.isLoading \/ loadState.hasError) =>
          /\ shaderMaterial.map = placeholderTexture
          /\ shaderMaterial.isPlaceholder = 1
          /\ shaderMaterial.aspectRatio = One

\* C13: the loading-indicator ring is rendered exactly in the Loading states and
\* is absent in every Loaded state and every Errored state.
C13_IndicatorOnlyWhileLoading ==
    /\ loadingIndicator <=> loadState.isLoading
    /\ (loadState.hasLoaded \/ loadState.hasError) => ~loadingIndicator

\* C13 witness: a request has failed and the ring is gone.
C13_Witness ==
    /\ \E i \in 1..Len(requests) : IsCurrent(i) /\ requests[i].stage = "failed"
    /\ loadState.hasError
    /\ ~loadingIndicator

\* C14: each of getEdgeThemeColor, getEdgeThemeNumber and getNodeThemeNumber
\* returns a non-callable value unchanged without invoking anything, and for a
\* callable f returns f(e) verbatim, having invoked f exactly once with e as
\* its only argument, also when e is absent.
C14_ResolutionRule ==
    themeCall.entry \in {"getEdgeThemeColor", "getEdgeThemeNumber", "getNodeThemeNumber"} =>
        IF themeCall.value.isFunction
          THEN /\ themeCall.out.result = themeCall.value.fn[themeCall.element]
               /\ Len(themeCall.out.calls) = 1
               /\ themeCall.out.calls[1] = <<themeCall.element>>
          ELSE /\ themeCall.out.result = themeCall.value.val
               /\ themeCall.out.calls = <<>>

\* C14 witness: getNodeThemeNumber was given a callback and no node, called the
\* callback once with undefined and returned its defined result.
C14_Witness ==
    /\ themeCall.entry = "getNodeThemeNumber"
    /\ themeCall.value.isFunction
    /\ themeCall.element = Undefined
    /\ themeCall.value.fn[Undefined] # themeCall.value.fn[1]
    /\ themeCall.out = [result |-> themeCall.value.fn[Undefined], calls |-> << <<Undefined>> >>]

\* C16: across all instances of one process the placeholder texture is
\* constructed at most once and every instance samples that same texture object.
C16_PlaceholderBuiltOnce ==
    /\ Cardinality({instances[k].placeholder : k \in 1..Len(instances)}) <= 1
    /\ \A j, k \in 1..Len(instances) : instances[j].placeholder = instances[k].placeholder

\* C17: after an instance is torn down, none of the image textures and shader
\* materials it created remains allocated.
C17_ReleasedOnTeardown ==
    \A k \in 1..Len(instances) :
        ~instances[k].mounted => (instances[k].textures = 0 /\ instances[k].materials = 0)

\* (node) => node.data.priority === 'high'
PriorityIsHigh == [n \in Nodes |-> n.priority = "high"]

\* C18: the border ring is rendered exactly when borderEnabled, resolved against
\* the owning node, is true: with (node) => node.data.priority === 'high' it is
\* drawn for priority 'high' and not for 'normal', with the default it is never
\* drawn, whatever selected and the load state are.
C18_BorderIffEnabled ==
    /\ (~props.borderEnabled.isFunction /\ props.borderEnabled.val) => borderRing
    /\ (~props.borderEnabled.isFunction /\ ~props.borderEnabled.val) => ~borderRing
    /\ \A f \in [Nodes -> BOOLEAN] :
          props.borderEnabled = FunctionValue(f) => (borderRing <=> f[props.node])
    /\ props.borderEnabled = FunctionValue(PriorityIsHigh) =>
          (borderRing <=> props.node.priority = "high")
    /\ props.borderEnabled = DefaultProps.borderEnabled => ~borderRing

\* C18 witness: the priority callback suppresses the ring for a 'normal' node
\* that is selected and whose image has loaded.
C18_Witness ==
    /\ props.borderEnabled = FunctionValue(PriorityIsHigh)
    /\ props.node.priority = "normal"
    /\ props.selected
    /\ loadState.hasLoaded
    /\ ~borderRing

Baseline == <<1 * Unit, 1 * Unit, 1 * Unit>>

Pulsed == <<(11 * Unit) \div 10, (11 * Unit) \div 10, (11 * Unit) \div 10>>

\* C19 as stated: while selected and selectionPulseAnimation the pulse targets
\* 1.1x the baseline in a reversing loop; when selected is false or pulsing is
\* disabled the loop is off, the pulse target is the baseline with zero
\* duration, the ring scale target is the epsilon and the ring opacity target is 0.
C19_PulseStopsRingCollapses ==
    IF props.selected /\ props.selectionPulseAnimation
      THEN /\ pulseSpring.to.pulseScale = Pulsed
           /\ pulseSpring.loop = [enabled |-> TRUE, reverse |-> TRUE]
      ELSE /\ ~pulseSpring.loop.enabled
           /\ pulseSpring.to.pulseScale = Baseline
           /\ pulseSpring.config.duration = Duration(0)
           /\ nodeSpring.to.ringScale = NearZero
           /\ nodeSpring.to.ringOpacity = 0

\* C19 amended: the pulse part as stated; the ring scale target is the epsilon
\* and the ring opacity target is 0 exactly when selected is false, and with
\* selected true the ring targets [size/2, size/2, 1] and selectionBorderOpacity
\* whether or not pulsing is enabled.
C19_PulseStopsRingFollowsSelected ==
    /\ IF props.selected /\ props.selectionPulseAnimation
         THEN /\ pulseSpring.to.pulseScale = Pulsed
              /\ pulseSpring.loop = [enabled |-> TRUE, reverse |-> TRUE]
         ELSE /\ ~pulseSpring.loop.enabled
              /\ pulseSpring.to.pulseScale = Baseline
              /\ pulseSpring.config.duration = Duration(0)
    /\ IF props.selected
         THEN /\ nodeSpring.to.ringScale = <<props.size \div 2, props.size \div 2, 1 * Unit>>
              /\ nodeSpring.to.ringOpacity = props.selectionBorderOpacity
         ELSE /\ nodeSpring.to.ringScale = NearZero
              /\ nodeSpring.to.ringOpacity = 0

\* C19 witness: selection was cleared while pulsing is enabled: loop off, ring collapsed.
C19_Witness ==
    /\ props # DefaultProps
    /\ ~props.selected /\ props.selectionPulseAnimation
    /\ ~pulseSpring.loop.enabled
    /\ nodeSpring.to.ringScale = NearZero

\* offset of a coordinate from the centre 0.5
Offset(c) == QSub(c, Half)

InUnit(c) == c[1] >= 0 /\ c[1] <= c[2]

\* C20 as stated: in image mode the transform is the identity when r = 1,
\* divides the horizontal offset from the centre by r when r > 1 (vertical offset
\* unchanged), multiplies the vertical offset by r when r < 1 (horizontal offset
\* unchanged), and the output lies in [0,1] x [0,1].
C20_AspectTransform ==
    (frag.shaded /\ frag.isPlaceholder = 0) =>
        LET r == frag.aspectRatio
        IN  /\ (r = One) => frag.uv = frag.vUv
            /\ QLess(One, r) =>
                  /\ QMul(Offset(frag.uv[1]), r) = Offset(frag.vUv[1])
                  /\ Offset(frag.uv[2]) = Offset(frag.vUv[2])
            /\ QLess(r, One) =>
                  /\ Offset(frag.uv[2]) = QMul(Offset(frag.vUv[2]), r)
                  /\ Offset(frag.uv[1]) = Offset(frag.vUv[1])
            /\ InUnit(frag.uv[1]) /\ InUnit(frag.uv[2])

\* C20 amended: as stated, except that every offset from the centre is also
\* scaled by the fixed margin 0.95: for r = 1 the output offset is 0.95 x the
\* input offset on both axes, for r > 1 the horizontal one is 0.95 x offset / r,
\* for r < 1 the vertical one is 0.95 x offset x r.
C20_AspectTransformWithMargin ==
    (frag.shaded /\ frag.isPlaceholder = 0) =>
        LET r  == frag.aspectRatio
            mx == QMul(Offset(frag.vUv[1]), <<95, 100>>)
            my == QMul(Offset(frag.vUv[2]), <<95, 100>>)
        IN  /\ (r = One) => (Offset(frag.uv[1]) = mx /\ Offset(frag.uv[2]) = my)
            /\ QLess(One, r) =>
                  /\ QMul(Offset(frag.uv[1]), r) = mx
                  /\ Offset(frag.uv[2]) = my
            /\ QLess(r, One) =>
                  /\ Offset(frag.uv[2]) = QMul(my, r)
                  /\ Offset(frag.uv[1]) = mx
            /\ InUnit(frag.uv[1]) /\ InUnit(frag.uv[2])

\* C20 witness: the corner (1, 1) of a 2:1 image is sampled at
\* (0.5 + 0.95 * 0.5 / 2, 0.5 + 0.95 * 0.5) = (59/80, 39/40).
C20_Witness ==
    /\ frag.shaded /\ frag.isPlaceholder = 0
    /\ frag.aspectRatio = <<2, 1>>
    /\ frag.vUv = <<One, One>>
    /\ frag.uv = <<<<59, 80>>, <<39, 40>>>>

\* C21: the node spring goes from the near-zero scale and opacity 0 to
\* scale = [size, size, size] and the requested opacity; with animated false
\* the duration is 0, with animated true no zero duration is forced.
C21_NodeSpringTargets ==
    /\ nodeSpring.from.scale = <<Epsilon, Epsilon, Epsilon>>
    /\ nodeSpring.from.nodeOpacity = 0
    /\ \A k \in 1..3 : nodeSpring.to.scale[k] = props.size
    /\ Len(nodeSpring.to.scale) = 3
    /\ nodeSpring.to.nodeOpacity = props.opacity
    /\ ~props.animated => nodeSpring.config.duration = <<0>>
    /\ props.animated => nodeSpring.config.duration = <<>>

\* C21 witness: an animated node of size 2 with opacity 0.5: no duration is
\* forced and the targets are [2, 2, 2] and 0.5.
C21_Witness ==
    /\ props.animated
    /\ props.size = 2 * Unit
    /\ props.opacity = Unit \div 2
    /\ nodeSpring.config.duration = NoDuration
    /\ nodeSpring.to.scale = <<2 * Unit, 2 * Unit, 2 * Unit>>
    /\ nodeSpring.to.nodeOpacity = Unit \div 2

\* every scale vector handed to the animation library
ScaleVectors ==
    { nodeSpring.from.scale, nodeSpring.to.scale,
      nodeSpring.from.ringScale, nodeSpring.to.ringScale,
      pulseSpring.from.pulseScale, pulseSpring.to.pulseScale }

\* C22: for every size > 0 and every selected and selectionPulseAnimation, each
\* component of every from/to scale vector is strictly positive, the near-zero
\* vectors being 0.00001 in each component.
C22_NoZeroScale ==
    props.size > 0 =>
        /\ \A v \in ScaleVectors : \A k \in 1..Len(v) : v[k] > 0
        /\ nodeSpring.from.scale = <<1, 1, 1>>
        /\ nodeSpring.from.ringScale = <<1, 1, 1>>
        /\ ~props.selected => nodeSpring.to.ringScale = <<1, 1, 1>>
        /\ Epsilon * 100000 = Unit

\* C22 witness: an unselected node with pulsing disabled: the ring target is the epsilon vector.
C22_Witness ==
    /\ ~props.selected /\ ~props.selectionPulseAnimation
    /\ props.size = 1 * Unit
    /\ nodeSpring.to.ringScale = NearZero
    /\ pulseSpring.to.pulseScale = <<1 * Unit, 1 * Unit, 1 * Unit>>

\* C23: in every state where hasLoaded is true the image reference is
\* non-empty, the texture sampled in image mode is the texture of the current
\* reference whose decode and probe have succeeded, and loadState.aspectRatio is
\* the ratio measured for that reference.
C23_LoadedMeansCurrentLoaded ==
    loadState.hasLoaded =>
        /\ image # NoImage
        /\ \E i \in 1..Len(requests) :
              /\ IsCurrent(i)
              /\ requests[i].stage = "loaded"
              /\ shaderMaterial.map = i
              /\ shaderMaterial.isPlaceholder = 0
              /\ loadState.aspectRatio = requests[i].ratio
              /\ shaderMaterial.aspectRatio = requests[i].ratio

\* every callback that can still fire for any request has fired
NothingPending ==
    \A j \in 1..Len(requests) : requests[j].stage \in {"loaded", "failed", "probeFailed"}

\* C24: once the texture-decode callback of the current reference's request has
\* fired and every callback it leads to has been delivered (the probe's success
\* or failure included), the instance is out of Loading.
C24_DecodedLeavesLoading ==
    \A i \in 1..Len(requests) :
        (IsCurrent(i) /\ NothingPending) => ~loadState.isLoading

\* a border field resolved against the owning node
AgainstNode(v) == IF v.isFunction THEN v.fn[props.node] ELSE v.val

\* C25: when the border is drawn its color, opacity and strokeWidth are the
\* individually resolved borderColor, borderOpacity and borderThickness, its
\* innerRadius is max(0.1, resolved borderInnerRadius) and its size is
\* 1.8 x size; omitted fields take '#000000', 1.0, 2 and 0.8.
C25_BorderFieldsResolved ==
    borderRing =>
        /\ borderRingProps.color = AgainstNode(props.borderColor)
        /\ borderRingProps.opacity = AgainstNode(props.borderOpacity)
        /\ borderRingProps.strokeWidth = AgainstNode(props.borderThickness)
        /\ borderRingProps.innerRadius >= Unit \div 10
        /\ borderRingProps.innerRadius >= AgainstNode(props.borderInnerRadius)
        /\ borderRingProps.innerRadius \in {Unit \div 10, AgainstNode(props.borderInnerRadius)}
        /\ borderRingProps.size * 10 = props.size * 18
        /\ props.borderColor = DefaultProps.borderColor => borderRingProps.color = "#000000"
        /\ props.borderOpacity = DefaultProps.borderOpacity => borderRingProps.opacity = 100000
        /\ props.borderThickness = DefaultProps.borderThickness =>
              borderRingProps.strokeWidth = 200000
        /\ props.borderInnerRadius = DefaultProps.borderInnerRadius =>
              borderRingProps.innerRadius = 80000

\* C25 witness: a drawn border whose color and inner radius are functions of a
\* 'normal' node: the color is the function's value and the radius 0.05 is
\* raised to 0.1.
C25_Witness ==
    /\ borderRing
    /\ props.node.priority = "normal"
    /\ props.borderColor.isFunction /\ props.borderInnerRadius.isFunction
    /\ borderRingProps.color = "#4A90E2"
    /\ borderRingProps.innerRadius = Unit \div 10
    /\ resolvedBorderInnerRadius = (5 * Unit) \div 100
    /\ props.borderThickness = DefaultProps.borderThickness
    /\ borderRingProps.strokeWidth = 2 * Unit

\* the squared distance of the fragment from the centre, over the square
\* of the common denominator of its two offsets
SquaredOffsets(f) ==
    LET cx == QSub(f.vUv[1], Half)
        cy == QSub(f.vUv[2], Half)
        L  == (cx[2] * cy[2]) \div GCD(cx[2], cy[2])
        nx == cx[1] * (L \div cx[2])
        ny == cy[1] * (L \div cy[2])
    IN  [sum |-> nx * nx + ny * ny, den |-> L]

\* d >= 0.5, d <= 0.48, and 0.48 < d < 0.5, from the squared distance
OutsideCircle(f) == 4 * SquaredOffsets(f).sum >= SquaredOffsets(f).den * SquaredOffsets(f).den

InsideBand(f) ==
    625 * SquaredOffsets(f).sum <= 144 * SquaredOffsets(f).den * SquaredOffsets(f).den

Nearer(f, g) ==
    LET a == SquaredOffsets(f)
        b == SquaredOffsets(g)
        M == (a.den * b.den) \div GCD(a.den, b.den)
    IN  a.sum * (M \div a.den) * (M \div a.den) <= b.sum * (M \div b.den) * (M \div b.den)

\* C26: the mask is 0 for d >= 0.5, 1 for d <= 0.48, strictly between 0 and 1
\* in between, and non-increasing in d (so equal for equal d), d being the
\* distance of the fragment from (0.5, 0.5); the output alpha is
\* mask x opacity in both modes.
C26_CircularMask ==
    [][ frag'.shaded =>
          /\ OutsideCircle(frag') => frag'.mask = <<0, 1>>
          /\ InsideBand(frag') => frag'.mask = One
          /\ (~OutsideCircle(frag') /\ ~InsideBand(frag')) =>
                (QLess(<<0, 1>>, frag'.mask) /\ QLess(frag'.mask, One))
          /\ frag'.alpha = QMul(frag'.mask, frag'.opacity)
          /\ frag.shaded =>
                /\ Nearer(frag, frag') => QLeq(frag'.mask, frag.mask)
                /\ Nearer(frag', frag) => QLeq(frag.mask, frag'.mask) ]_vars

\* C26 witness: in image mode with opacity 0.5, the fragment (0.794, 0.892),
\* at distance 0.49 from the centre, has mask 0.5 and alpha 0.25.
C26_Witness ==
    /\ frag.shaded /\ frag.isPlaceholder = 0
    /\ frag.vUv = <<Q(794, 1000), Q(892, 1000)>>
    /\ frag.opacity = Half
    /\ frag.dist = <<49, 100>>
    /\ frag.mask = Half
    /\ frag.alpha = <<1, 4>>

\* v to 4 decimal places: the multiple k of 0.0001 with k - 0.00005 <= v < k + 0.00005
ToFourDecimals(v) ==
    CHOOSE k \in {10 * (v \div 10), 10 * (v \div 10) + 10} : k - 5 <= v /\ v < k + 5

\* C27: in a frame drawn with the text attached, textSize is updated (to the
\* measured size) if and only if the measured x or y differs from the stored
\* one after rounding to 4 decimal places; a frame that measures the same x
\* and y as the frame before it updates nothing.
C27_UpdatesIffRoundedDiffers ==
    [][ (label'.frames = label.frames + 1 /\ label.attached) =>
          LET size    == label'.measured[1]
              differs == \/ ToFourDecimals(size.x) # ToFourDecimals(label.textSize.x)
                         \/ ToFourDecimals(size.y) # ToFourDecimals(label.textSize.y)
              updated == label'.updates = label.updates + 1
          IN  /\ updated <=> differs
              /\ updated => label'.textSize = size
              /\ ~updated => (label'.updates = label.updates /\ label'.textSize = label.textSize)
              /\ ( /\ label.measured # <<>>
                   /\ label.measured[1].x = size.x
                   /\ label.measured[1].y = size.y ) => ~updated ]_vars

\* C27 witness: three frames were drawn with the text attached and textSize
\* was updated once, to x = 1.0; the last frame measured x = 1.00004, which
\* rounds to the stored x, and left textSize alone.
C27_Witness ==
    /\ label.attached
    /\ label.frames = 3
    /\ label.updates = 1
    /\ label.textSize.x = 100000
    /\ label.measured # <<>>
    /\ label.measured[1].x = 100004
    /\ label.measured[1].y = label.textSize.y

====
